---- MODULE Spec2Model ----
(***************************************************************************)
(* Model of app.py: the Streamlit script that authenticates to Search      *)
(* Console, fetches three reports, sends each to the completion model,     *)
(* asks for an executive summary and optionally renders a PDF.             *)
(*                                                                         *)
(* One behaviour is one execution of the script (Streamlit runs the script *)
(* top to bottom).  Every external call (a Search Console request, a       *)
(* completion request) is split into the step that issues it and the step  *)
(* in which it returns or raises, so that "outstanding" calls are visible. *)
(***************************************************************************)
EXTENDS Integers, Sequences, FiniteSets, TLC

(* ------------------------------ bounds --------------------------------- *)
\* number of distinct responses an endpoint may return, and of distinct
\* exception messages a call may raise
MaxPayloads == 2
\* number of distinct texts the completion model may return
MaxTexts == 2

(* --------------------------- Python values ----------------------------- *)
\* A str is <<"str", s>>, a one-entry dict is <<"dict", k, v>>, and the str
\* that str(v) builds from a non-str value v is <<"repr", v>>.
PyStr(s) == <<"str", s>>
PyDict(k, v) == <<"dict", k, v>>
PyNone == <<"none">>

\* str(v): the identity on a str, the printed form otherwise
Str(v) == IF v[1] \in {"str", "repr", "fstr"} THEN v ELSE <<"repr", v>>

\* str(e) of an exception is its message
StrExc(e) == PyStr(e.msg)

\* f"{prefix}{v}"
FStr(prefix, v) == <<"fstr", prefix, Str(v)>>

NoExc == [type |-> "", msg |-> "", at |-> ""]
Exc(type, msg, at) == [type |-> type, msg |-> msg, at |-> at]

(* ------------------------------ config --------------------------------- *)
SITE_URL == PyStr("https://www.example.com/")

\* the keys of the results mapping, in the order the script fills them
Keys == <<"index_coverage", "core_web_vitals", "mobile_usability">>
\* the category labels passed to analyze_with_ai
Labels == <<"Index Coverage", "Core Web Vitals", "Mobile Usability">>
NumCats == 3

(* ------------------------- the outside world --------------------------- *)
MsgPool == <<"timed out", "HttpError 403", "connection reset", "quota exceeded">>
BodyPool == <<"rows=10", "rows=0", "verdict=PASS", "verdict=FAIL">>
TextPool == <<"text A", "text B", "text C", "text D">>

\* what request.execute() may return
Responses == {PyDict("response", PyStr(BodyPool[i])) : i \in 1..MaxPayloads}
\* the messages of the exceptions a call may raise
Messages == {MsgPool[i] : i \in 1..MaxPayloads}
\* what response.choices[0].message.content may be
Texts == {PyStr(TextPool[i]) : i \in 1..MaxTexts}

\* the uploaded file: absent, not JSON, JSON without a required field, or a
\* complete service-account key
Uploads == {"none", "malformed", "missing_field", "valid"}

VARIABLES pc, cat, uploaded_file, service, data, results, summary_text,
          exc, displayed, artifact, downloaded, outstanding, log

vars == <<pc, cat, uploaded_file, service, data, results, summary_text,
          exc, displayed, artifact, downloaded, outstanding, log>>

(* ----------------------- insertion-ordered dict ------------------------ *)
\* results is a Python dict: a sequence of <<key, value>> in insertion order
HasKey(d, k) == \E i \in 1..Len(d) : d[i][1] = k
Get(d, k) == d[CHOOSE i \in 1..Len(d) : d[i][1] = k][2]
Put(d, k, v) ==
    IF HasKey(d, k)
    THEN [i \in 1..Len(d) |-> IF d[i][1] = k THEN <<k, v>> ELSE d[i]]
    ELSE Append(d, <<k, v>>)
KeysOf(d) == {d[i][1] : i \in 1..Len(d)}

(* ------------------------------ the log -------------------------------- *)
\* ghost history of the calls the script makes: op is the callee, ph is
\* "call", "ret" or "raise", c the results key it is for, arg what is passed
\* (call) or produced (ret, raise)
Ev(op, ph, c, arg) == [op |-> op, ph |-> ph, c |-> c, arg |-> arg]
Count(op, ph, c) ==
    Cardinality({i \in 1..Len(log) :
                    log[i].op = op /\ log[i].ph = ph /\ log[i].c = c})
CountOp(op, ph) ==
    Cardinality({i \in 1..Len(log) : log[i].op = op /\ log[i].ph = ph})

(* ------------------------------- Init ---------------------------------- *)
NoData == [k \in {Keys[i] : i \in 1..NumCats} |-> PyNone]

Init ==
    /\ pc = "start"
    /\ cat = 0
    /\ uploaded_file \in Uploads
    /\ service = "none"
    /\ data = NoData
    /\ results = <<>>
    /\ summary_text = PyNone
    /\ exc = NoExc
    /\ displayed = PyNone
    /\ artifact = <<>>
    /\ downloaded = FALSE
    /\ outstanding = {}
    /\ log = <<>>

(* --------------------------- control flow ------------------------------ *)
\* an exception raised inside the try block transfers to the except clause
RaiseInTry(e) ==
    /\ exc' = e
    /\ pc' = "except"

\* an exception raised outside any try block ends the script
RaiseUncaught(e) ==
    /\ exc' = e
    /\ pc' = "crashed"

\* if uploaded_file:
upload_check ==
    /\ pc = "start"
    /\ pc' = IF uploaded_file = "none" THEN "done" ELSE "loads"
    /\ UNCHANGED <<cat, uploaded_file, service, data, results, summary_text,
                   exc, displayed, artifact, downloaded, outstanding, log>>

\* creds_dict = json.loads(creds_json), before the try statement
json_loads ==
    /\ pc = "loads"
    /\ IF uploaded_file = "malformed"
       THEN RaiseUncaught(Exc("JSONDecodeError", "Expecting value", "json.loads"))
       ELSE pc' = "auth" /\ exc' = exc
    /\ UNCHANGED <<cat, uploaded_file, service, data, results, summary_text,
                   displayed, artifact, downloaded, outstanding, log>>

\* variant: a failure to build the service is swallowed and the script
\* goes on to fetch with no service
get_gsc_service_swallow ==
    /\ pc = "auth"
    /\ \/ /\ uploaded_file \in {"missing_field", "valid"}
          /\ exc' = Exc("ValueError", "missing fields", "get_gsc_service")
          /\ service' = service
       \/ /\ uploaded_file = "valid"
          /\ service' = "searchconsole"
          /\ exc' = exc
    /\ cat' = 1
    /\ pc' = "fetch"
    /\ UNCHANGED <<uploaded_file, data, results, summary_text, displayed,
                   artifact, downloaded, outstanding, log>>

\* service = get_gsc_service(creds_dict): from_service_account_info rejects
\* a key with a missing field; build() may fail for a complete key too
get_gsc_service ==
    /\ pc = "auth"
    /\ \/ /\ uploaded_file = "missing_field"
          /\ RaiseInTry(Exc("ValueError", "missing fields", "get_gsc_service"))
          /\ UNCHANGED <<service, cat>>
       \/ /\ uploaded_file = "valid"
          /\ \E m \in Messages : RaiseInTry(Exc("HttpError", m, "get_gsc_service"))
          /\ UNCHANGED <<service, cat>>
       \/ /\ uploaded_file = "valid"
          /\ service' = "searchconsole"
          /\ cat' = 1
          /\ pc' = "fetch"
          /\ exc' = exc
    /\ UNCHANGED <<uploaded_file, data, results, summary_text, displayed,
                   artifact, downloaded, outstanding, log>>

(* ----------------------------- fetching -------------------------------- *)
\* variant: the except clause returns the bare message, not a mapping
ErrorPayloadBare(e) == StrExc(e)

\* except Exception as e: return {"error": str(e)}
ErrorPayload(e) == PyDict("error", StrExc(e))

\* fetch_index_coverage / fetch_cwv / fetch_mobile_usability up to
\* request.execute(): the request of the current category is issued
fetch_call ==
    /\ pc = "fetch"
    /\ outstanding' = outstanding \cup {<<"fetch", Keys[cat]>>}
    /\ log' = Append(log, Ev("fetch", "call", Keys[cat], service))
    /\ pc' = "fetch_wait"
    /\ UNCHANGED <<cat, uploaded_file, service, data, results, summary_text,
                   exc, displayed, artifact, downloaded>>

\* return request.execute()
fetch_return ==
    /\ pc = "fetch_wait"
    /\ \E r \in Responses :
          /\ data' = [data EXCEPT ![Keys[cat]] = r]
          /\ log' = Append(log, Ev("fetch", "ret", Keys[cat], r))
    /\ outstanding' = outstanding \ {<<"fetch", Keys[cat]>>}
    /\ pc' = "analyze"
    /\ UNCHANGED <<cat, uploaded_file, service, results, summary_text,
                   exc, displayed, artifact, downloaded>>

\* variant: a failed request is retried once before the error payload is
\* returned
fetch_except_retry ==
    /\ pc = "fetch_wait"
    /\ \E m \in Messages :
          LET e == Exc("TimeoutError", m, "fetch") IN
          /\ log' = Append(log, Ev("fetch", "raise", Keys[cat], StrExc(e)))
          /\ IF Count("fetch", "call", Keys[cat]) < 2
             THEN data' = data /\ pc' = "fetch"
             ELSE /\ data' = [data EXCEPT ![Keys[cat]] = PyDict("error", StrExc(e))]
                  /\ pc' = "analyze"
    /\ outstanding' = outstanding \ {<<"fetch", Keys[cat]>>}
    /\ UNCHANGED <<cat, uploaded_file, service, results, summary_text,
                   exc, displayed, artifact, downloaded>>

\* the request raises: the except clause of the fetch function turns the
\* exception into an error payload and returns it
fetch_except ==
    /\ pc = "fetch_wait"
    /\ \E m \in Messages :
          LET e == Exc("TimeoutError", m, "fetch") IN
          /\ data' = [data EXCEPT ![Keys[cat]] = ErrorPayload(e)]
          /\ log' = Append(log, Ev("fetch", "raise", Keys[cat], StrExc(e)))
    /\ outstanding' = outstanding \ {<<"fetch", Keys[cat]>>}
    /\ pc' = "analyze"
    /\ UNCHANGED <<cat, uploaded_file, service, results, summary_text,
                   exc, displayed, artifact, downloaded>>

(* ----------------------------- analysis -------------------------------- *)
\* variant: the completion request is issued without waiting for it, and
\* the script goes on to the next block
analyze_call_async ==
    /\ pc = "analyze"
    /\ outstanding' = outstanding \cup {<<"analyze", Keys[cat]>>}
    /\ log' = Append(log, Ev("analyze", "call", Keys[cat],
                             <<Labels[cat], data[Keys[cat]]>>))
    /\ IF cat < NumCats
       THEN cat' = cat + 1 /\ pc' = "fetch"
       ELSE cat' = cat /\ pc' = "analyze_wait"
    /\ UNCHANGED <<uploaded_file, service, data, results, summary_text,
                   exc, displayed, artifact, downloaded>>

\* analyze_with_ai(label, data) up to client.chat.completions.create
analyze_call ==
    /\ pc = "analyze"
    /\ outstanding' = outstanding \cup {<<"analyze", Keys[cat]>>}
    /\ log' = Append(log, Ev("analyze", "call", Keys[cat],
                             <<Labels[cat], data[Keys[cat]]>>))
    /\ pc' = "analyze_wait"
    /\ UNCHANGED <<cat, uploaded_file, service, data, results, summary_text,
                   exc, displayed, artifact, downloaded>>

\* variant: the assignment to results[key] is missing
analyze_return_nostore ==
    /\ pc = "analyze_wait"
    /\ \E t \in Texts : log' = Append(log, Ev("analyze", "ret", Keys[cat], t))
    /\ outstanding' = outstanding \ {<<"analyze", Keys[cat]>>}
    /\ IF cat < NumCats
       THEN cat' = cat + 1 /\ pc' = "fetch"
       ELSE cat' = cat /\ pc' = "summary"
    /\ UNCHANGED <<uploaded_file, service, data, results, summary_text,
                   exc, displayed, artifact, downloaded>>

\* the completion returns; results[key] = {"raw": data, "ai_solution": ai}
\* and the script moves to the next block
analyze_return ==
    /\ pc = "analyze_wait"
    /\ \E t \in Texts :
          /\ results' = Put(results, Keys[cat],
                            [raw |-> data[Keys[cat]], ai_solution |-> t])
          /\ log' = Append(log, Ev("analyze", "ret", Keys[cat], t))
    /\ outstanding' = outstanding \ {<<"analyze", Keys[cat]>>}
    /\ IF cat < NumCats
       THEN cat' = cat + 1 /\ pc' = "fetch"
       ELSE cat' = cat /\ pc' = "summary"
    /\ UNCHANGED <<uploaded_file, service, data, summary_text,
                   exc, displayed, artifact, downloaded>>

\* variant: analyze_with_ai recovers as the fetch functions do, returning
\* the error text as the analysis
analyze_raise_recover ==
    /\ pc = "analyze_wait"
    /\ \E m \in Messages :
          LET e == Exc("APIError", m, "analyze_with_ai") IN
          /\ exc' = e
          /\ results' = Put(results, Keys[cat],
                            [raw |-> data[Keys[cat]], ai_solution |-> StrExc(e)])
          /\ log' = Append(log, Ev("analyze", "raise", Keys[cat], StrExc(e)))
    /\ outstanding' = outstanding \ {<<"analyze", Keys[cat]>>}
    /\ IF cat < NumCats
       THEN cat' = cat + 1 /\ pc' = "fetch"
       ELSE cat' = cat /\ pc' = "summary"
    /\ UNCHANGED <<uploaded_file, service, data, summary_text,
                   displayed, artifact, downloaded>>

\* the completion raises: analyze_with_ai has no try, the exception leaves it
analyze_raise ==
    /\ pc = "analyze_wait"
    /\ \E m \in Messages :
          LET e == Exc("APIError", m, "analyze_with_ai") IN
          /\ RaiseInTry(e)
          /\ log' = Append(log, Ev("analyze", "raise", Keys[cat], StrExc(e)))
    /\ outstanding' = outstanding \ {<<"analyze", Keys[cat]>>}
    /\ UNCHANGED <<cat, uploaded_file, service, data, results, summary_text,
                   displayed, artifact, downloaded>>

(* ------------------------------ summary -------------------------------- *)
\* generate_summary_with_ai(results) up to client.chat.completions.create
summary_call ==
    /\ pc = "summary"
    /\ outstanding' = outstanding \cup {<<"summary", "">>}
    /\ log' = Append(log, Ev("summary", "call", "", results))
    /\ pc' = "summary_wait"
    /\ UNCHANGED <<cat, uploaded_file, service, data, results, summary_text,
                   exc, displayed, artifact, downloaded>>

\* variant: the returned text is reformatted before it is kept
summary_return_reformat ==
    /\ pc = "summary_wait"
    /\ \E t \in Texts :
          /\ summary_text' = FStr("Summary: ", t)
          /\ log' = Append(log, Ev("summary", "ret", "", t))
    /\ outstanding' = outstanding \ {<<"summary", "">>}
    /\ pc' = "button"
    /\ UNCHANGED <<cat, uploaded_file, service, data, results,
                   exc, displayed, artifact, downloaded>>

\* summary_text = response.choices[0].message.content
summary_return ==
    /\ pc = "summary_wait"
    /\ \E t \in Texts :
          /\ summary_text' = t
          /\ log' = Append(log, Ev("summary", "ret", "", t))
    /\ outstanding' = outstanding \ {<<"summary", "">>}
    /\ pc' = "button"
    /\ UNCHANGED <<cat, uploaded_file, service, data, results,
                   exc, displayed, artifact, downloaded>>

summary_raise ==
    /\ pc = "summary_wait"
    /\ \E m \in Messages :
          LET e == Exc("APIError", m, "generate_summary_with_ai") IN
          /\ RaiseInTry(e)
          /\ log' = Append(log, Ev("summary", "raise", "", StrExc(e)))
    /\ outstanding' = outstanding \ {<<"summary", "">>}
    /\ UNCHANGED <<cat, uploaded_file, service, data, results, summary_text,
                   displayed, artifact, downloaded>>

\* if st.button(...): the PDF is generated only in a run the click started
button ==
    /\ pc = "button"
    /\ \E clicked \in BOOLEAN : pc' = IF clicked THEN "pdf" ELSE "done"
    /\ UNCHANGED <<cat, uploaded_file, service, data, results, summary_text,
                   exc, displayed, artifact, downloaded, outstanding, log>>

(* ------------------------------ export --------------------------------- *)
Paragraph(text, style) == <<"Paragraph", text, style>>
Spacer(height) == <<"Spacer", height>>

\* the heading of the section generate_pdf writes for a results key (the
\* emoji of the source's headings are left out)
Heading(k) ==
    CASE k = "index_coverage" -> PyStr("<b>Index Coverage</b>")
      [] k = "core_web_vitals" -> PyStr("<b>Core Web Vitals</b>")
      [] k = "mobile_usability" -> PyStr("<b>Mobile Usability</b>")

\* one category section: heading, the raw data stringified, the AI text
Section(d, k) ==
    << Paragraph(Heading(k), "Heading2"),
       Paragraph(PyStr("Raw Data:"), "Heading3"),
       Paragraph(Str(Get(d, k).raw), "Code"),
       Spacer(6),
       Paragraph(PyStr("AI SEO Recommendations:"), "Heading3"),
       Paragraph(Get(d, k).ai_solution, "Normal"),
       Spacer(12) >>

\* variant: the sections are written by iterating over the mapping
RECURSIVE SectionsInOrder(_, _)
SectionsInOrder(d, i) ==
    IF i > Len(d) THEN <<>> ELSE Section(d, d[i][1]) \o SectionsInOrder(d, i + 1)

StoryIterating(site_url, d, text) ==
    << Paragraph(PyStr("<b>SEO Audit Report</b>"), "Title"),
       Spacer(12),
       Paragraph(FStr("Site: ", site_url), "Normal"),
       Paragraph(FStr("Date: ", PyStr("today")), "Normal"),
       Spacer(24),
       Paragraph(PyStr("<b>Executive Summary</b>"), "Heading2"),
       Paragraph(text, "Normal"),
       Spacer(24) >>
    \o SectionsInOrder(d, 1)

\* the story generate_pdf builds: cover, executive summary, then the three
\* sections, each looked up in the mapping by its key
Story(site_url, d, text) ==
    << Paragraph(PyStr("<b>SEO Audit Report</b>"), "Title"),
       Spacer(12),
       Paragraph(FStr("Site: ", site_url), "Normal"),
       Paragraph(FStr("Date: ", PyStr("today")), "Normal"),
       Spacer(24),
       Paragraph(PyStr("<b>Executive Summary</b>"), "Heading2"),
       Paragraph(text, "Normal"),
       Spacer(24) >>
    \o Section(d, "index_coverage")
    \o Section(d, "core_web_vitals")
    \o Section(d, "mobile_usability")

\* pdf_file = generate_pdf(SITE_URL, results, summary_text): a key missing
\* from the mapping raises KeyError, doc.build may fail to write the file
generate_pdf ==
    /\ pc = "pdf"
    /\ log' = Append(log, Ev("generate_pdf", "call", "",
                             <<SITE_URL, results, summary_text>>))
    /\ IF \A i \in 1..NumCats : HasKey(results, Keys[i])
       THEN \/ /\ artifact' = Story(SITE_URL, results, summary_text)
               /\ pc' = "open"
               /\ exc' = exc
            \/ /\ RaiseInTry(Exc("OSError", "No space left on device", "generate_pdf"))
               /\ artifact' = artifact
       ELSE /\ RaiseInTry(Exc("KeyError", "missing key", "generate_pdf"))
            /\ artifact' = artifact
    /\ UNCHANGED <<cat, uploaded_file, service, data, results, summary_text,
                   displayed, downloaded, outstanding>>

\* with open(pdf_file, "rb") as f: st.download_button(...)
open_download ==
    /\ pc = "open"
    /\ \/ /\ downloaded' = TRUE
          /\ pc' = "done"
          /\ exc' = exc
       \/ /\ RaiseInTry(Exc("OSError", "Permission denied", "open"))
          /\ downloaded' = downloaded
    /\ UNCHANGED <<cat, uploaded_file, service, data, results, summary_text,
                   displayed, artifact, outstanding, log>>

\* variant: the handler also clears what the run has produced
except_handler_reset ==
    /\ pc = "except"
    /\ displayed' = FStr("Error: ", StrExc(exc))
    /\ results' = <<>>
    /\ summary_text' = PyNone
    /\ pc' = "done"
    /\ UNCHANGED <<cat, uploaded_file, service, data,
                   exc, artifact, downloaded, outstanding, log>>

\* except Exception as e: st.error(f"Error: {e}")
except_handler ==
    /\ pc = "except"
    /\ displayed' = FStr("Error: ", StrExc(exc))
    /\ pc' = "done"
    /\ UNCHANGED <<cat, uploaded_file, service, data, results, summary_text,
                   exc, artifact, downloaded, outstanding, log>>

(* --------------------------- specifications ---------------------------- *)
Next ==
    \/ upload_check
    \/ json_loads
    \/ get_gsc_service
    \/ fetch_call
    \/ fetch_return
    \/ fetch_except
    \/ analyze_call
    \/ analyze_return
    \/ analyze_raise
    \/ summary_call
    \/ summary_return
    \/ summary_raise
    \/ button
    \/ generate_pdf
    \/ open_download
    \/ except_handler

Spec == Init /\ [][Next]_vars

\* generate_pdf as a function of its arguments: any mapping a caller may
\* pass, with its entries in any insertion order
RawValues == Responses \cup {ErrorPayload(Exc("TimeoutError", m, "fetch")) : m \in Messages}
Entries == [raw : RawValues, ai_solution : Texts]
KeySet == {Keys[i] : i \in 1..NumCats}
Mappings ==
    UNION {{d \in [1..n -> KeySet \X Entries] :
               \A i, j \in 1..n : i # j => d[i][1] # d[j][1]} : n \in 0..NumCats}

InitPdf ==
    /\ pc = "pdf"
    /\ cat = NumCats
    /\ uploaded_file = "valid"
    /\ service = "searchconsole"
    /\ data = NoData
    /\ results \in Mappings
    /\ summary_text \in Texts
    /\ exc = NoExc
    /\ displayed = PyNone
    /\ artifact = <<>>
    /\ downloaded = FALSE
    /\ outstanding = {}
    /\ log = <<>>

NextPdf ==
    \/ generate_pdf
    \/ open_download
    \/ except_handler

SpecPdf == InitPdf /\ [][NextPdf]_vars

TypeOK ==
    /\ pc \in {"start", "loads", "auth", "fetch", "fetch_wait", "analyze",
               "analyze_wait", "summary", "summary_wait", "button", "pdf",
               "open", "except", "done", "crashed"}
    /\ cat \in 0..NumCats
    /\ Len(results) <= NumCats

(* ------------------------------ claims --------------------------------- *)
LogIdx == 1..Len(log)
Is(i, op, ph) == log[i].op = op /\ log[i].ph = ph
Terminated == pc \in {"done", "crashed"}
Shown(e) == FStr("Error: ", StrExc(e))
KeyIndex(k) == CHOOSE n \in 1..NumCats : Keys[n] = k

\* C1 (as stated): whenever the request of a category has raised, the raw
\* data of that category, as kept by the script and as recorded in the
\* results mapping, equals the stringified error str(e) itself, and the
\* analyzer is invoked next with that value.
C1_RawIsStringifiedError ==
    \A i \in LogIdx : Is(i, "fetch", "raise") =>
        /\ data[log[i].c] = log[i].arg
        /\ (HasKey(results, log[i].c) => Get(results, log[i].c).raw = log[i].arg)
        /\ (i < Len(log) =>
              log[i + 1] = Ev("analyze", "call", log[i].c,
                              <<Labels[KeyIndex(log[i].c)], log[i].arg>>))

\* C1 (amended): whenever the request of a category has raised, whatever
\* the other categories' fetches did, the exception is not propagated (the
\* script is at the analysis of that category or past it, never in the
\* handler because of the fetch), the raw data of that category is the
\* one-entry mapping {"error": str(e)}, the results mapping records that
\* mapping as raw, and the next call the script makes is the analyzer for
\* that category with that mapping as its data argument.
C1_FetchErrorDegrades ==
    \A i \in LogIdx : Is(i, "fetch", "raise") =>
        LET k == log[i].c
            payload == PyDict("error", log[i].arg) IN
        /\ exc.at # "fetch"
        /\ data[k] = payload
        /\ (HasKey(results, k) => Get(results, k).raw = payload)
        /\ IF i = Len(log)
           THEN pc = "analyze" /\ Keys[cat] = k
           ELSE log[i + 1] =
                   Ev("analyze", "call", k, <<Labels[KeyIndex(k)], payload>>)

\* the performance fetch returned a response, the mobile fetch raised, and
\* the analyzer has been called for both
C1_Witness ==
    /\ \E i \in LogIdx : Is(i, "fetch", "ret") /\ log[i].c = "core_web_vitals"
    /\ \E i \in LogIdx : Is(i, "fetch", "raise") /\ log[i].c = "mobile_usability"
    /\ Count("analyze", "call", "core_web_vitals") = 1
    /\ Count("analyze", "call", "mobile_usability") = 1
    /\ HasKey(results, "mobile_usability")

\* C2: when generate_summary_with_ai is about to be invoked, and in every
\* invocation of it, the results mapping has exactly the three categories,
\* each entry holding the raw data that was fetched for it and the text the
\* analyzer returned for it.
Complete(d) ==
    /\ Len(d) = NumCats
    /\ KeysOf(d) = KeySet
    /\ \A k \in KeySet :
          /\ Get(d, k).raw # PyNone
          /\ Get(d, k).raw = data[k]
          /\ \E j \in LogIdx : /\ Is(j, "analyze", "ret")
                               /\ log[j].c = k
                               /\ log[j].arg = Get(d, k).ai_solution

C2_SummaryOnCompleteResults ==
    /\ pc \in {"summary", "summary_wait"} => Complete(results)
    /\ \A i \in LogIdx : Is(i, "summary", "call") => Complete(log[i].arg)

\* the summary has been requested in a run where a fetch had failed
C2_Witness ==
    /\ CountOp("summary", "call") = 1
    /\ CountOp("fetch", "raise") >= 1
    /\ CountOp("fetch", "ret") >= 1

\* C3: once loading the credentials has failed (json.loads or
\* get_gsc_service raised), the run is over or in the handler, and no
\* fetch, analysis, summary or export call has been made; a failure of
\* get_gsc_service is shown to the user when the run ends.
AuthFailed == exc.at \in {"json.loads", "get_gsc_service"}

C4_AllErrorsReachHandler ==
    (Terminated /\ exc # NoExc) => displayed = Shown(exc)

\* C5: once the analysis call of a category has raised, the script is in
\* the handler or has ended with the error displayed, that raise is the
\* last call event of the run (no later fetch, analysis, summary or
\* export), and the results mapping holds exactly the earlier categories.
C5_AnalysisFailureAborts ==
    exc.at = "analyze_with_ai" =>
        /\ pc \in {"except", "done"}
        /\ Len(log) > 0
        /\ Is(Len(log), "analyze", "raise")
        /\ log[Len(log)].c = Keys[cat]
        /\ ~HasKey(results, Keys[cat])
        /\ KeysOf(results) = {Keys[n] : n \in 1..(cat - 1)}
        /\ \A n \in (cat + 1)..NumCats :
              Count("fetch", "call", Keys[n]) = 0 /\ Count("analyze", "call", Keys[n]) = 0
        /\ CountOp("summary", "call") = 0
        /\ CountOp("generate_pdf", "call") = 0
        /\ artifact = <<>>
        /\ (pc = "done" => displayed = Shown(exc))

\* the analysis of the second category raised and the run has ended
C5_Witness ==
    /\ exc.at = "analyze_with_ai"
    /\ cat = 2
    /\ pc = "done"
    /\ HasKey(results, "index_coverage")

\* C6: for every insertion order of the three entries of the mapping passed
\* to generate_pdf, the document it writes has, after the cover and the
\* executive summary, the section of index coverage, then of core web
\* vitals, then of mobile usability, each showing the raw data and the
\* analysis of its own category.
IsHeading2(p) == p[1] = "Paragraph" /\ p[3] = "Heading2"
Headings(story) == SelectSeq(story, IsHeading2)
SectionAt(story, n) == SubSeq(story, 9 + 7 * (n - 1), 8 + 7 * n)

C6_FixedSectionOrder ==
    artifact # <<>> =>
        /\ Headings(artifact) =
              << Paragraph(PyStr("<b>Executive Summary</b>"), "Heading2"),
                 Paragraph(PyStr("<b>Index Coverage</b>"), "Heading2"),
                 Paragraph(PyStr("<b>Core Web Vitals</b>"), "Heading2"),
                 Paragraph(PyStr("<b>Mobile Usability</b>"), "Heading2") >>
        /\ Len(artifact) = 8 + 7 * NumCats
        /\ \A n \in 1..NumCats :
              /\ SectionAt(artifact, n)[3] =
                    Paragraph(Str(Get(results, Keys[n]).raw), "Code")
              /\ SectionAt(artifact, n)[6] =
                    Paragraph(Get(results, Keys[n]).ai_solution, "Normal")

\* a document has been written from a mapping whose entries were inserted
\* in the reverse order, with different raw data in the first and the last
C6_Witness ==
    /\ artifact # <<>>
    /\ Len(results) = NumCats
    /\ results[1][1] = "mobile_usability"
    /\ results[2][1] = "core_web_vitals"
    /\ results[3][1] = "index_coverage"
    /\ results[1][2].raw # results[3][2].raw

\* C7: generate_summary_with_ai is called at most once in a run and exactly
\* once in a run that ended with all three pairs produced; every call of
\* generate_pdf comes after that call has returned and is handed the text
\* it returned, and that text is the executive summary of the document.
C7_SummaryOnceAndUnmodified ==
    /\ CountOp("summary", "call") <= 1
    /\ (Terminated /\ Len(results) = NumCats) => CountOp("summary", "call") = 1
    /\ \A i \in LogIdx : Is(i, "generate_pdf", "call") =>
          \E j \in 1..(i - 1) : /\ Is(j, "summary", "ret")
                                /\ log[i].arg[3] = log[j].arg
                                /\ log[i].arg[2] = results
                                /\ (artifact # <<>> =>
                                      artifact[7] = Paragraph(log[j].arg, "Normal"))

\* the document has been written and offered for download
C7_Witness ==
    /\ CountOp("generate_pdf", "call") = 1
    /\ artifact # <<>>
    /\ downloaded
    /\ pc = "done"

\* C8: at most one external call is outstanding at any time; a call that has
\* been issued returns or raises before the script issues another; and the
\* request of a category is issued only after the request and the analysis
\* of the preceding category have both completed, in the order index
\* coverage, core web vitals, mobile usability.
External == {"fetch", "analyze", "summary"}

C8_StrictlySequential ==
    /\ Cardinality(outstanding) <= 1
    /\ \A i \in LogIdx : (log[i].op \in External /\ log[i].ph = "call") =>
          IF i = Len(log)
          THEN outstanding = {<<log[i].op, log[i].c>>}
          ELSE /\ log[i + 1].op = log[i].op
               /\ log[i + 1].c = log[i].c
               /\ log[i + 1].ph \in {"ret", "raise"}
    /\ \A i \in LogIdx : (Is(i, "fetch", "call") /\ KeyIndex(log[i].c) > 1) =>
          LET prev == Keys[KeyIndex(log[i].c) - 1] IN
          \E j, k \in 1..(i - 1) :
              /\ j < k
              /\ log[j].op = "fetch" /\ log[j].c = prev /\ log[j].ph \in {"ret", "raise"}
              /\ Is(k, "analyze", "ret") /\ log[k].c = prev
    /\ \A i, j \in LogIdx : (i < j /\ Is(i, "fetch", "call") /\ Is(j, "fetch", "call")) =>
          KeyIndex(log[i].c) < KeyIndex(log[j].c)

\* all three categories have been fetched and analysed
C8_Witness ==
    /\ pc = "summary"
    /\ CountOp("fetch", "call") = NumCats
    /\ CountOp("analyze", "ret") = NumCats

\* C9: in a run every fetch endpoint is called at most once and the
\* analyzer at most once per category, whether the call returns or raises;
\* each call issued has at most one outcome.
C9_NoRetry ==
    \A k \in KeySet :
        /\ Count("fetch", "call", k) <= 1
        /\ Count("analyze", "call", k) <= 1
        /\ Count("fetch", "ret", k) + Count("fetch", "raise", k) <= Count("fetch", "call", k)
        /\ Count("analyze", "ret", k) + Count("analyze", "raise", k)
              <= Count("analyze", "call", k)

\* every request of the run raised and the run has ended
C9_Witness ==
    /\ CountOp("fetch", "raise") = NumCats
    /\ CountOp("fetch", "call") = NumCats
    /\ pc = "done"

\* C10: once the export has failed (generate_pdf or open raised), the
\* results mapping and the summary text are the values that were passed to
\* generate_pdf, that call is the last call of the run (no further fetch,
\* analysis or summary), and the error is displayed when the run ends.
ExportFailed == exc.at \in {"generate_pdf", "open"}

C10_ExportFailureLeavesState ==
    ExportFailed =>
        /\ pc \in {"except", "done"}
        /\ Len(log) > 0
        /\ Is(Len(log), "generate_pdf", "call")
        /\ results = log[Len(log)].arg[2]
        /\ summary_text = log[Len(log)].arg[3]
        /\ Complete(results)
        /\ CountOp("summary", "call") = 1
        /\ CountOp("fetch", "call") = NumCats
        /\ CountOp("analyze", "call") = NumCats
        /\ outstanding = {}
        /\ (pc = "done" => displayed = Shown(exc))

\* reading the written file back failed and the run has ended
C10_Witness ==
    /\ exc.at = "open"
    /\ artifact # <<>>
    /\ pc = "done"

====
